---- MODULE Spec2Model ----
(***************************************************************************)
(* A model of layoutFlex (src/flexLayout.c): one invocation on a flex      *)
(* container, as the four loops of the function and the statements between *)
(* them, against a host that implements the LayoutContext callbacks.       *)
(*                                                                         *)
(* A C float is modelled as <<n, d>>: the rational n/d in lowest terms     *)
(* with d > 0, or <<0,0>> (NaN), <<1,0>> (+infinity), <<-1,0>>             *)
(* (-infinity).  Rounding of float arithmetic is not modelled, except that *)
(* a value of magnitude 2^30 or more absorbs a small addend, as a float    *)
(* with its 24 bit significand does.  A C int is a TLA+ integer.           *)
(***************************************************************************)
EXTENDS Integers, Sequences, FiniteSets, TLC

\* The largest number of children of the container.
MaxChildren == 2

---------------------------------------------------------------------------
\* float arithmetic

NaN == <<0, 0>>
PInf == <<1, 0>>
NInf == <<-1, 0>>

RECURSIVE GCD(_, _)
GCD(a, b) == IF b = 0 THEN a ELSE GCD(b, a % b)

\* n/d in lowest terms, d > 0.
Norm(n, d) ==
    LET g == GCD(d, n % d) IN <<n \div g, d \div g>>

F(n) == <<n, 1>>
Q(n, d) == Norm(n, d)
Zero == F(0)

IsFinite(x) == x[2] # 0
IsInf(x) == x = PInf \/ x = NInf
Sign(x) == IF x[1] > 0 THEN 1 ELSE IF x[1] < 0 THEN -1 ELSE 0
\* A magnitude of 2^30 or more.
Huge(x) == x[2] # 0 /\ (x[1] \div x[2] >= 1073741824 \/ x[1] \div x[2] <= -1073741824)

\* -x.  The float 2^31 = -(float) INT_MIN stands as 2^31 - 1, the largest TLC integer.
Neg(x) == IF x[1] = -2147483647 - 1 THEN <<2147483647, 1>> ELSE <<-x[1], x[2]>>

Add(x, y) ==
    IF x = NaN \/ y = NaN THEN NaN
    ELSE IF IsInf(x) THEN (IF IsInf(y) /\ y # x THEN NaN ELSE x)
    ELSE IF IsInf(y) THEN y
    ELSE IF Huge(x) THEN x
    ELSE IF Huge(y) THEN y
    ELSE Norm(x[1] * y[2] + y[1] * x[2], x[2] * y[2])

Sub(x, y) == Add(x, Neg(y))

Mul(x, y) ==
    IF x = NaN \/ y = NaN THEN NaN
    ELSE IF IsInf(x) \/ IsInf(y)
         THEN (IF Sign(x) * Sign(y) = 0 THEN NaN
               ELSE IF Sign(x) * Sign(y) > 0 THEN PInf ELSE NInf)
    ELSE Norm(x[1] * y[1], x[2] * y[2])

Div(x, y) ==
    IF x = NaN \/ y = NaN THEN NaN
    ELSE IF IsInf(x)
         THEN (IF IsInf(y) THEN NaN
               ELSE IF Sign(x) * Sign(y) < 0 THEN Neg(x) ELSE x)
    ELSE IF IsInf(y) THEN Zero
    ELSE IF y[1] = 0
         THEN (IF x[1] = 0 THEN NaN ELSE IF x[1] > 0 THEN PInf ELSE NInf)
    ELSE IF y[1] > 0 THEN Norm(x[1] * y[2], x[2] * y[1])
    ELSE Norm((-x[1]) * y[2], x[2] * (-y[1]))

\* x < y and x > y of C: false when either is NaN.
Lt(x, y) ==
    IF x = NaN \/ y = NaN \/ x = y THEN FALSE
    ELSE IF x = NInf \/ y = PInf THEN TRUE
    ELSE IF x = PInf \/ y = NInf THEN FALSE
    ELSE IF Huge(x) /\ Huge(y) THEN x[1] \div x[2] < y[1] \div y[2]
    ELSE IF Huge(x) THEN x[1] < 0
    ELSE IF Huge(y) THEN y[1] > 0
    ELSE x[1] * y[2] < y[1] * x[2]

Gt(x, y) == Lt(y, x)

Le(x, y) == x # NaN /\ y # NaN /\ ~Lt(y, x)

\* A float used as a condition, `if (x)`: x != 0, which NaN satisfies.
NonZero(x) == x # Zero

\* What a float to int conversion yields where C leaves it undefined (NaN, an
\* infinity): 0 on a saturating target, INT_MIN on x86.
InvalidIntOutcomes == {0, -2147483647 - 1}

\* (int) x: truncation toward zero; `u` is the outcome of an undefined conversion
\* (of NaN, of an infinity, of 2^31).
ToInt(x, u) ==
    IF ~IsFinite(x) \/ x = <<2147483647, 1>> THEN u
    ELSE IF x[2] = 1 THEN x[1]
    ELSE IF x[1] >= 0 THEN x[1] \div x[2]
    ELSE -((-x[1]) \div x[2])

---------------------------------------------------------------------------
\* flexLayout.h

Aligns == {"START", "END", "CENTER", "SPACE_BETWEEN", "SPACE_AROUND", "STRETCH"}
MeasureModes == {"UNSPECIFIED", "EXACTLY", "AT_MOST"}
FlexDirections == {"ROW", "COLUMN"}

\* struct FlexParams.
FlexParams(align, flex, w, h, ml, mt, mr, mb) ==
    [align |-> align, flex |-> flex, width |-> w, height |-> h,
     marginLeft |-> ml, marginTop |-> mt, marginRight |-> mr, marginBottom |-> mb]

---------------------------------------------------------------------------
\* flexLayout.c: the helpers

isUndefined(value) == value = NaN

getPerpendicularAxis(axis) == IF axis = "ROW" THEN "COLUMN" ELSE "ROW"

getLeadingMargin(p, axis) == IF axis = "ROW" THEN p.marginLeft ELSE p.marginTop

getTrailingMargin(p, axis) == IF axis = "ROW" THEN p.marginRight ELSE p.marginBottom

getMargin(p, axis) == Add(getLeadingMargin(p, axis), getTrailingMargin(p, axis))

getStyleSize(p, axis) == IF axis = "ROW" THEN p.width ELSE p.height

\* getLayoutSize, on the geometry record n of a node.
getLayoutSize(n, axis) == IF axis = "ROW" THEN n.width ELSE n.height

getAlign(p) == p.align

getFlex(p) == p.flex

isFlex(p) == getFlex(p) # Zero

isFlexBasisAuto(p) == Le(getFlex(p), Zero)

getFlexGrowFactor(p) == IF Gt(getFlex(p), Zero) THEN getFlex(p) ELSE Zero

getFlexShrinkFactor(p) == IF Lt(getFlex(p), Zero) THEN 1 ELSE 0

MAX(x, y) == IF Gt(x, y) THEN x ELSE y

---------------------------------------------------------------------------
\* The state of one call layoutFlex(layoutContext, widget, width, widthMode,
\* height, heightMode, direction, justify).

VARIABLES
    direction, justify, width, widthMode, height, heightMode,  \* the arguments
    params,     \* params[c]: the FlexParams getLayoutParams returns for child c
    content,    \* content[c]: the size child c takes when the host lays it out unconstrained
    mem,        \* mem[c]: the memory of child c's node read as a struct FlexParams
    node,       \* node[c]: the geometry of child c, behind setX .. getHeight
    widget,     \* the geometry of the container
    pc, i,      \* the position in layoutFlex: the loop or statement, the loop index
    sizeConsumed, totalFlexGrowFactors, totalFlexShrinkScaledFactors,
    remainingSpace, leadingMainSize, betweenMain, mainSize, crossSize,
    calls,      \* history: the calls of layoutContext->layout, in order
    basisOf     \* history: basisOf[c] is the basis stored for child c at line 114

args == <<direction, justify, width, widthMode, height, heightMode, params, content, mem>>
locals == <<sizeConsumed, totalFlexGrowFactors, totalFlexShrinkScaledFactors,
            remainingSpace, leadingMainSize, betweenMain, mainSize, crossSize>>
vars == <<args, node, widget, pc, i, locals, calls, basisOf>>

childCount == Len(params)
mainAxis == direction
crossAxis == getPerpendicularAxis(mainAxis)
mainMeasureMode == IF mainAxis = "ROW" THEN widthMode ELSE heightMode
crossMeasureMode == IF crossAxis = "ROW" THEN widthMode ELSE heightMode
availableMain == IF mainAxis = "ROW" THEN width ELSE height
availableCross == IF crossAxis = "ROW" THEN width ELSE height

---------------------------------------------------------------------------
\* The host behind the LayoutContext.

\* The size a node takes on one axis: the size given when the mode is EXACTLY, its
\* content capped at the size given when AT_MOST, its content when UNSPECIFIED.
Measured(size, mode, own) ==
    IF mode = "EXACTLY" THEN size
    ELSE IF mode = "AT_MOST" /\ Lt(size, own) THEN size
    ELSE own

\* layoutContext->layout(child, cw, cwm, ch, chm) on a node n with content c.
HostLayout(n, c, call) ==
    [n EXCEPT !.width = Measured(call.width, call.widthMode, c.width),
              !.height = Measured(call.height, call.heightMode, c.height)]

\* setWidth or setHeight of a node, by axis.
SetLayoutSize(n, axis, v) ==
    IF axis = "ROW" THEN [n EXCEPT !.width = v] ELSE [n EXCEPT !.height = v]

\* setX or setY of a node, by axis.
SetPosition(n, axis, v) ==
    IF axis = "ROW" THEN [n EXCEPT !.x = v] ELSE [n EXCEPT !.y = v]

LayoutCall(c, pass, cw, cwm, ch, chm) ==
    [child |-> c, pass |-> pass, width |-> cw, widthMode |-> cwm,
     height |-> ch, heightMode |-> chm]

---------------------------------------------------------------------------
\* layoutFlex, pass 1: the basis of each child (lines 68-120)

\* BasisKind without the zero basis of line 79-80: every child without a main style
\* size is measured.
BasisKindMeasured(p) ==
    IF ~isUndefined(getStyleSize(p, mainAxis)) THEN "style" ELSE "measure"

\* How the basis of a child is determined: its style size, zero, or a layout call.
BasisKind(p) ==
    IF ~isUndefined(getStyleSize(p, mainAxis)) THEN "style"
    ELSE IF ~isFlexBasisAuto(p) /\ NonZero(availableMain) THEN "zero"
    ELSE "measure"

\* The layout call that determines the base size of child c (lines 83-109).
MeasureCall(c, p) ==
    LET align == getAlign(p)
        wDef == ~isUndefined(getStyleSize(p, "ROW"))
        hDef == ~isUndefined(getStyleSize(p, "COLUMN"))
    IN LayoutCall(c, "measure",
         IF wDef THEN p.width ELSE width,
         IF wDef THEN "EXACTLY"
         ELSE IF crossAxis = "ROW" /\ widthMode = "EXACTLY" /\ align = "STRETCH"
              THEN "EXACTLY"
         ELSE IF widthMode = "UNSPECIFIED" THEN "UNSPECIFIED" ELSE "AT_MOST",
         IF hDef THEN p.height ELSE height,
         IF hDef THEN "EXACTLY"
         ELSE IF crossAxis = "COLUMN" /\ heightMode = "EXACTLY" /\ align = "STRETCH"
              THEN "EXACTLY"
         ELSE IF heightMode = "UNSPECIFIED" THEN "UNSPECIFIED" ELSE "AT_MOST")

\* One iteration of the loop of lines 71-120, on child i.
BasisPass ==
    /\ pc = "basis"
    /\ i < childCount
    /\ LET c == i + 1
           p == params[c]
           kind == BasisKind(p)
           call == MeasureCall(c, p)
           n1 == IF kind = "measure" THEN HostLayout(node[c], content[c], call)
                 ELSE node[c]
           basis == IF kind = "style" THEN getStyleSize(p, mainAxis)
                    ELSE IF kind = "zero" THEN Zero
                    ELSE getLayoutSize(n1, mainAxis)
       IN /\ calls' = IF kind = "measure" THEN Append(calls, call) ELSE calls
          /\ node' = [node EXCEPT ![c] = SetLayoutSize(n1, mainAxis, basis)]
          /\ basisOf' = Append(basisOf, basis)
          /\ sizeConsumed' = Add(sizeConsumed, Add(basis, getMargin(p, mainAxis)))
          \* line 116: isFlex(child), on the node and not on its params
          /\ totalFlexGrowFactors' =
                IF isFlex(mem[c]) THEN Add(totalFlexGrowFactors, getFlexGrowFactor(p))
                ELSE totalFlexGrowFactors
          /\ totalFlexShrinkScaledFactors' =
                IF isFlex(mem[c])
                THEN Add(totalFlexShrinkScaledFactors, Mul(F(getFlexShrinkFactor(p)), basis))
                ELSE totalFlexShrinkScaledFactors
    /\ i' = i + 1
    /\ UNCHANGED <<args, widget, pc, remainingSpace, leadingMainSize, betweenMain,
                   mainSize, crossSize>>

\* Line 124 without its test of availableMain.
RemainingSpaceUntested(avail, consumed) == Sub(avail, consumed)

\* Line 124.
RemainingSpace(avail, consumed) ==
    IF NonZero(avail) THEN Sub(avail, consumed) ELSE Zero

\* Lines 123-124, between the first and the second loop.
Remaining ==
    /\ pc = "basis"
    /\ i = childCount
    /\ leadingMainSize' = Zero
    /\ betweenMain' = Zero
    /\ remainingSpace' = RemainingSpace(availableMain, sizeConsumed)
    /\ pc' = "flex"
    /\ i' = 0
    /\ UNCHANGED <<args, node, widget, sizeConsumed, totalFlexGrowFactors,
                   totalFlexShrinkScaledFactors, mainSize, crossSize, calls, basisOf>>

---------------------------------------------------------------------------
\* pass 2: the flexible children and the final layout of each child (lines 122-173)

\* Lines 131-137: the main size of a child from its stored basis.
Distribute(p, childBasis) ==
    IF Lt(remainingSpace, Zero)
    THEN LET flexShrinkScaledFactor == Mul(F(getFlexShrinkFactor(p)), childBasis)
         IN IF flexShrinkScaledFactor # Zero
            THEN Add(childBasis,
                     Mul(Div(remainingSpace, totalFlexShrinkScaledFactors),
                         flexShrinkScaledFactor))
            ELSE childBasis
    ELSE IF Gt(remainingSpace, Zero)
    THEN LET flexGrowFactor == getFlexGrowFactor(p)
         IN IF flexGrowFactor # Zero
            THEN Add(childBasis,
                     Mul(Div(remainingSpace, totalFlexGrowFactors), flexGrowFactor))
            ELSE childBasis
    ELSE childBasis

\* Lines 139-172: the layout call of child c with the main size childBasis.
FinalCall(c, p, childBasis) ==
    LET childCrossStyleSize == getStyleSize(p, crossAxis)
    IN IF mainAxis = "ROW"
       THEN LayoutCall(c, "final", childBasis, "EXACTLY",
              IF ~isUndefined(childCrossStyleSize) THEN childCrossStyleSize ELSE height,
              IF ~isUndefined(childCrossStyleSize) THEN "EXACTLY"
              ELSE IF heightMode = "EXACTLY" /\ getAlign(p) = "STRETCH" THEN "EXACTLY"
              ELSE IF heightMode = "UNSPECIFIED" THEN "UNSPECIFIED" ELSE "AT_MOST")
       ELSE LayoutCall(c, "final",
              IF NonZero(childCrossStyleSize) THEN childCrossStyleSize ELSE width,
              IF NonZero(childCrossStyleSize) THEN "EXACTLY"
              ELSE IF widthMode = "EXACTLY" /\ getAlign(p) = "STRETCH" THEN "EXACTLY"
              ELSE IF widthMode = "UNSPECIFIED" THEN "UNSPECIFIED" ELSE "AT_MOST",
              childBasis, "EXACTLY")

\* One iteration of the loop of lines 125-173, on child i.
FlexPass ==
    /\ pc = "flex"
    /\ i < childCount
    /\ LET c == i + 1
           p == params[c]
           childBasis == Distribute(p, getLayoutSize(node[c], mainAxis))
           call == FinalCall(c, p, childBasis)
       IN /\ node' = [node EXCEPT ![c] = HostLayout(node[c], content[c], call)]
          /\ calls' = Append(calls, call)
    /\ i' = i + 1
    /\ UNCHANGED <<args, widget, pc, locals, basisOf>>

---------------------------------------------------------------------------
\* pass 3: placement on the main axis (lines 174-201)

\* Line 174: whether the remaining space is allocated according to justify.
JustifyApplies ==
    totalFlexGrowFactors = Zero /\ Gt(remainingSpace, Zero) /\ mainMeasureMode = "EXACTLY"

\* Lines 176-191: betweenMain after the switch.
JustifyBetween ==
    IF ~JustifyApplies THEN betweenMain
    ELSE IF justify = "SPACE_BETWEEN" /\ childCount > 1
         THEN Div(remainingSpace, F(childCount - 1))
    ELSE IF justify = "SPACE_AROUND" THEN Div(remainingSpace, F(childCount))
    ELSE betweenMain

\* Lines 176-191: leadingMainSize after the switch.
JustifyLeading ==
    IF ~JustifyApplies THEN leadingMainSize
    ELSE IF justify = "CENTER" THEN Div(remainingSpace, F(2))
    ELSE IF justify = "END" THEN remainingSpace
    ELSE IF justify = "SPACE_AROUND" THEN Div(Div(remainingSpace, F(childCount)), F(2))
    ELSE leadingMainSize

\* Lines 174-194, between the second and the third loop.
Justify ==
    /\ pc = "flex"
    /\ i = childCount
    /\ leadingMainSize' = JustifyLeading
    /\ betweenMain' = JustifyBetween
    \* line 194: int mainSize = leadingMainSize, crossSize = 0
    /\ \E u \in InvalidIntOutcomes : mainSize' = ToInt(JustifyLeading, u)
    /\ crossSize' = 0
    /\ pc' = "place"
    /\ i' = 0
    /\ UNCHANGED <<args, node, widget, sizeConsumed, totalFlexGrowFactors,
                   totalFlexShrinkScaledFactors, remainingSpace, calls, basisOf>>

\* Line 198: the main-axis coordinate set on a child with params p.
MainPosition(p) == Add(F(mainSize), getLeadingMargin(p, crossAxis))

\* Line 199: mainSize after a child with params p and geometry n, before its
\* conversion to int.
MainAdvance(p, n) ==
    Add(F(mainSize),
        Add(Add(betweenMain, getLayoutSize(n, mainAxis)), getMargin(p, mainAxis)))

\* Line 200: crossSize after a child with params p and geometry n, before its
\* conversion to int.
CrossAccumulate(p, n) ==
    MAX(F(crossSize), Add(getLayoutSize(n, crossAxis), getMargin(p, mainAxis)))

\* One iteration of the loop of lines 195-201, on child i.
Place ==
    /\ pc = "place"
    /\ i < childCount
    /\ LET c == i + 1
           p == params[c]
       IN /\ node' = [node EXCEPT ![c] = SetPosition(node[c], mainAxis, MainPosition(p))]
          /\ \E u \in InvalidIntOutcomes : mainSize' = ToInt(MainAdvance(p, node[c]), u)
          /\ \E u \in InvalidIntOutcomes : crossSize' = ToInt(CrossAccumulate(p, node[c]), u)
    /\ i' = i + 1
    /\ UNCHANGED <<args, widget, pc, sizeConsumed, totalFlexGrowFactors,
                   totalFlexShrinkScaledFactors, remainingSpace, leadingMainSize,
                   betweenMain, calls, basisOf>>

\* Lines 203-205, between the third and the fourth loop.
Finalize ==
    /\ pc = "place"
    /\ i = childCount
    /\ \E u \in InvalidIntOutcomes :
          mainSize' = IF mainMeasureMode = "EXACTLY" THEN ToInt(availableMain, u)
                      ELSE mainSize
    /\ \E u \in InvalidIntOutcomes :
          crossSize' = IF crossMeasureMode = "EXACTLY" THEN ToInt(availableCross, u)
                       ELSE crossSize
    /\ pc' = "cross"
    /\ i' = 0
    /\ UNCHANGED <<args, node, widget, sizeConsumed, totalFlexGrowFactors,
                   totalFlexShrinkScaledFactors, remainingSpace, leadingMainSize,
                   betweenMain, calls, basisOf>>

---------------------------------------------------------------------------
\* pass 4: position on the cross axis (lines 207-233)

\* Lines 214-222: isCrossSizeDefinite of a child with params p.
IsCrossSizeDefinite(p, u) == ToInt(getStyleSize(p, crossAxis), u)

\* Lines 215-225: the layout call that stretches child c.
StretchCall(c, p, n) ==
    LET cross == Sub(F(crossSize), getMargin(p, crossAxis))
    IN IF mainAxis = "ROW"
       THEN LayoutCall(c, "stretch", n.width, "EXACTLY", cross, "EXACTLY")
       ELSE LayoutCall(c, "stretch", cross, "EXACTLY", n.height, "EXACTLY")

\* Line 228.
RemainingCross(p, n) ==
    Add(Sub(F(crossSize), getLayoutSize(n, crossAxis)), getMargin(p, crossAxis))

\* Lines 212-231: leadingCrossDim of a child that is not stretched.
LeadingCrossDim(p, n, u) ==
    IF getAlign(p) = "CENTER" THEN ToInt(Add(F(0), Div(RemainingCross(p, n), F(2))), u)
    ELSE IF getAlign(p) = "END" THEN ToInt(Add(F(0), RemainingCross(p, n)), u)
    ELSE 0

\* One iteration of the loop of lines 208-233, on child i.
CrossAlign ==
    /\ pc = "cross"
    /\ i < childCount
    /\ \E u \in InvalidIntOutcomes :
        LET c == i + 1
            p == params[c]
            align == getAlign(p)
            stretch == align = "STRETCH" /\ IsCrossSizeDefinite(p, u) = 0
            call == StretchCall(c, p, node[c])
            n1 == IF stretch THEN HostLayout(node[c], content[c], call) ELSE node[c]
            leadingCrossDim == IF align = "STRETCH" THEN 0 ELSE LeadingCrossDim(p, n1, u)
        IN /\ calls' = IF stretch THEN Append(calls, call) ELSE calls
           /\ node' = [node EXCEPT ![c] =
                         SetPosition(n1, crossAxis,
                                     Add(F(leadingCrossDim), getLeadingMargin(p, crossAxis)))]
    /\ i' = i + 1
    /\ UNCHANGED <<args, widget, pc, locals, basisOf>>

---------------------------------------------------------------------------
\* Lines 235-237: the size of the container.

SetSize ==
    /\ pc = "cross"
    /\ i = childCount
    /\ widget' = [width |-> F(IF mainAxis = "ROW" THEN mainSize ELSE crossSize),
                  height |-> F(IF mainAxis = "ROW" THEN crossSize ELSE mainSize)]
    /\ pc' = "done"
    /\ UNCHANGED <<args, node, i, locals, calls, basisOf>>

Next ==
    \/ BasisPass
    \/ Remaining
    \/ FlexPass
    \/ Justify
    \/ Place
    \/ Finalize
    \/ CrossAlign
    \/ SetSize

---------------------------------------------------------------------------
\* The calls checked: the arguments and the children of the container.

\* A child: its FlexParams, the size of its content, and what its node holds where
\* a struct FlexParams has flex.
Child(p, cw, ch, memFlex) ==
    [params |-> p, content |-> [width |-> cw, height |-> ch], mem |-> [flex |-> memFlex]]

ChildLists(Profiles) == UNION {[1..k -> Profiles] : k \in 0..MaxChildren}

\* The state on entry to layoutFlex.
Entry(Dirs, Justs, Widths, WidthModes, Heights, HeightModes, Profiles) ==
    /\ direction \in Dirs
    /\ justify \in Justs
    /\ width \in Widths
    /\ widthMode \in WidthModes
    /\ height \in Heights
    /\ heightMode \in HeightModes
    /\ \E cs \in ChildLists(Profiles) :
          /\ params = [c \in 1..Len(cs) |-> cs[c].params]
          /\ content = [c \in 1..Len(cs) |-> cs[c].content]
          /\ mem = [c \in 1..Len(cs) |-> cs[c].mem]
          /\ node = [c \in 1..Len(cs) |-> [x |-> Zero, y |-> Zero, width |-> Zero, height |-> Zero]]
    /\ widget = [width |-> Zero, height |-> Zero]
    /\ pc = "basis"
    /\ i = 0
    /\ sizeConsumed = Zero
    /\ totalFlexGrowFactors = Zero
    /\ totalFlexShrinkScaledFactors = Zero
    /\ remainingSpace = Zero
    /\ leadingMainSize = Zero
    /\ betweenMain = Zero
    /\ mainSize = 0
    /\ crossSize = 0
    /\ calls = <<>>
    /\ basisOf = <<>>

NoMargin(align, flex, w, h) == FlexParams(align, flex, w, h, Zero, Zero, Zero, Zero)

\* Children that differ on the main axis: fixed, measured, growing and shrinking
\* ones, with nodes that read as flexible and as not flexible at line 116.
MainProfiles ==
    { Child(NoMargin("START", Zero, F(6), F(4)), F(6), F(4), Zero),
      Child(FlexParams("START", Zero, F(5), F(3), F(1), F(2), Zero, Zero), F(5), F(3), Zero),
      Child(NoMargin("START", Zero, NaN, NaN), F(5), F(3), Zero),
      Child(NoMargin("START", F(1), NaN, NaN), F(3), F(3), F(1)),
      Child(NoMargin("START", F(2), F(4), F(4)), F(4), F(4), Zero),
      Child(NoMargin("START", F(-1), F(15), F(15)), F(15), F(15), F(-1)),
      Child(NoMargin("START", F(-1), F(12), F(12)), F(12), F(12), Zero) }

InitMain ==
    Entry(FlexDirections,
          {"START", "CENTER", "END", "SPACE_BETWEEN", "SPACE_AROUND"},
          {F(21), Q(41, 2)}, MeasureModes, {F(21), Q(41, 2)}, MeasureModes,
          MainProfiles)

\* Calls with every argument and the main-axis children.
SpecMain == InitMain /\ [][Next]_vars

InitUnspecified ==
    /\ Entry(FlexDirections, {"START", "SPACE_AROUND"},
             {Zero, F(21)}, MeasureModes, {Zero, F(21)}, MeasureModes, MainProfiles)
    /\ mainMeasureMode = "UNSPECIFIED"

\* Calls whose main-axis measure mode is UNSPECIFIED, with an available main size
\* of zero and of 21.
SpecUnspecified == InitUnspecified /\ [][Next]_vars

\* Children that differ on the cross axis: stretched ones without a cross style
\* size, with one below 1 and with one of 4, and centred, end- and start-aligned
\* ones, with margins that differ between the axes.
CrossProfiles ==
    { Child(NoMargin("STRETCH", Zero, NaN, NaN), F(5), F(3), Zero),
      Child(FlexParams("STRETCH", Zero, NaN, NaN, F(1), F(2), Zero, Zero), F(5), F(3), Zero),
      Child(NoMargin("STRETCH", Zero, Q(1, 2), Q(1, 2)), Q(1, 2), Q(1, 2), Zero),
      Child(NoMargin("STRETCH", Zero, F(4), F(4)), F(4), F(4), Zero),
      Child(FlexParams("CENTER", Zero, F(6), F(4), F(1), F(2), Zero, Zero), F(6), F(4), Zero),
      Child(FlexParams("END", Zero, F(6), F(4), F(1), F(2), Zero, F(1)), F(6), F(4), Zero),
      Child(FlexParams("START", Zero, F(6), F(4), F(1), F(2), Zero, Zero), F(6), F(4), Zero),
      Child(NoMargin("CENTER", Zero, NaN, NaN), F(5), F(3), Zero) }

InitCross ==
    Entry(FlexDirections, {"START", "CENTER"},
          {F(21), Q(41, 2)}, MeasureModes, {F(21), Q(41, 2)}, MeasureModes,
          CrossProfiles)

\* Calls with every argument and the cross-axis children.
SpecCross == InitCross /\ [][Next]_vars

\* Children that differ in the layout calls they receive: with and without a main
\* style size, flexible or not, stretched or not.
CallProfiles ==
    { Child(NoMargin("START", Zero, F(6), F(4)), F(6), F(4), Zero),
      Child(NoMargin("STRETCH", Zero, NaN, NaN), F(5), F(3), Zero),
      Child(NoMargin("START", F(1), NaN, NaN), F(3), F(3), F(1)),
      Child(NoMargin("CENTER", F(-1), NaN, NaN), F(5), F(3), F(-1)),
      Child(NoMargin("STRETCH", Zero, F(4), F(4)), F(4), F(4), Zero),
      Child(NoMargin("STRETCH", Zero, Q(1, 2), Q(1, 2)), Q(1, 2), Q(1, 2), Zero),
      Child(FlexParams("STRETCH", F(2), NaN, NaN, F(1), F(2), Zero, Zero), F(4), F(4), Zero) }

Init ==
    Entry(FlexDirections, {"SPACE_BETWEEN"},
          {Zero, F(21)}, MeasureModes, {Zero, F(21)}, MeasureModes, CallProfiles)

\* Calls with a zero and a nonzero available size on each axis, in every mode.
Spec == Init /\ [][Next]_vars

---------------------------------------------------------------------------
\* What the claims speak of.

Done == pc = "done"

Children == 1..childCount

\* The size on the main axis, and on the cross axis, that a layout call passes.
MainOf(call) == IF mainAxis = "ROW" THEN call.width ELSE call.height
CrossOf(call) == IF crossAxis = "ROW" THEN call.width ELSE call.height
MainModeOf(call) == IF mainAxis = "ROW" THEN call.widthMode ELSE call.heightMode
CrossModeOf(call) == IF crossAxis = "ROW" THEN call.widthMode ELSE call.heightMode

\* The calls of one pass on child c, in order.
CallsOf(c, pass) == SelectSeq(calls, LAMBDA k : k.child = c /\ k.pass = pass)

\* The final layout call of child c (of the distribution pass).
FinalOf(c) == CallsOf(c, "final")[1]

\* The main size child c is given by its final layout call.
FinalMain(c) == MainOf(FinalOf(c))

\* t[1] + ... + t[n] of a sequence of floats.
RECURSIVE SumTo(_, _)
SumTo(t, n) == IF n = 0 THEN Zero ELSE Add(SumTo(t, n - 1), t[n])

\* The container's size on the main and on the cross axis, as written at the end.
WidgetMain == IF mainAxis = "ROW" THEN widget.width ELSE widget.height
WidgetCross == IF crossAxis = "ROW" THEN widget.width ELSE widget.height

\* The remaining space as the specification defines it: the available main size
\* minus the sum over the children of basis plus main-axis margins.
SpecRemainingSpace ==
    Sub(availableMain,
        SumTo([c \in Children |-> Add(basisOf[c], getMargin(params[c], mainAxis))],
              childCount))

\* The sum of the positive flex values of the children.
SpecTotalGrow ==
    SumTo([c \in Children |-> getFlexGrowFactor(params[c])], childCount)

\* The sum of the bases of the children with flex < 0.
SpecTotalShrinkWeighted ==
    SumTo([c \in Children |-> IF Lt(getFlex(params[c]), Zero) THEN basisOf[c] ELSE Zero],
          childCount)

\* The sum over the children of final main size minus basis.
TotalIncrease ==
    SumTo([c \in Children |-> Sub(FinalMain(c), basisOf[c])], childCount)

---------------------------------------------------------------------------
\* C1: when the main-axis measure mode is EXACTLY, the main size written to the
\* container at the end equals the available main size, whole number or not.
C1_ExactMainSize ==
    (Done /\ mainMeasureMode = "EXACTLY") => WidgetMain = availableMain

\* C2: when the remaining space and the sum of the positive flex values are both
\* positive, each child with flex > 0 is laid out at basis + remainingSpace * flex /
\* (sum of positive flex), every other child at its basis, and the increases sum
\* to the remaining space.
C2_GrowConservation ==
    (Done /\ Gt(SpecRemainingSpace, Zero) /\ Gt(SpecTotalGrow, Zero)) =>
        /\ \A c \in Children :
              FinalMain(c) =
                  IF Gt(getFlex(params[c]), Zero)
                  THEN Add(basisOf[c],
                           Div(Mul(SpecRemainingSpace, getFlex(params[c])), SpecTotalGrow))
                  ELSE basisOf[c]
        /\ TotalIncrease = SpecRemainingSpace

\* C3: when the remaining space is negative and the sum of the bases of the children
\* with flex < 0 is positive, each child with flex < 0 and a nonzero basis is laid out
\* at basis - |remainingSpace| * basis / totalShrinkWeighted, the children with
\* flex >= 0 at their basis, and the decreases sum to |remainingSpace|.
C3_ShrinkConservation ==
    (Done /\ Lt(SpecRemainingSpace, Zero) /\ Gt(SpecTotalShrinkWeighted, Zero)) =>
        /\ \A c \in Children :
              FinalMain(c) =
                  IF Lt(getFlex(params[c]), Zero) /\ basisOf[c] # Zero
                  THEN Sub(basisOf[c],
                           Div(Mul(Neg(SpecRemainingSpace), basisOf[c]),
                               SpecTotalShrinkWeighted))
                  ELSE basisOf[c]
        /\ Neg(TotalIncrease) = Neg(SpecRemainingSpace)

\* Every final layout call so far passes the child's stored basis as its exact
\* main size.
BasisUnchanged ==
    \A k \in 1..Len(calls) :
        calls[k].pass = "final" =>
            /\ MainOf(calls[k]) = basisOf[calls[k].child]
            /\ MainModeOf(calls[k]) = "EXACTLY"

\* C4 as stated: with the main-axis measure mode UNSPECIFIED, whatever the available
\* main size, every child's final layout call receives its basis unchanged.
C4_UnspecifiedKeepsBasis == mainMeasureMode = "UNSPECIFIED" => BasisUnchanged

\* C4 amended: with the main-axis measure mode UNSPECIFIED and an available main
\* size of 0, every child's final layout call receives its basis unchanged,
\* whatever the flex values.
C4_UnspecifiedZeroKeepsBasis ==
    (mainMeasureMode = "UNSPECIFIED" /\ availableMain = Zero) => BasisUnchanged

\* A finished call with mode UNSPECIFIED and available main size 0 on children among
\* which one may grow and one, with a nonzero basis, may shrink.
C4_Witness ==
    /\ Done
    /\ mainMeasureMode = "UNSPECIFIED"
    /\ availableMain = Zero
    /\ \E c \in Children : Gt(getFlex(params[c]), Zero)
    /\ \E c \in Children :
          Lt(getFlex(params[c]), Zero) /\ isFlex(mem[c]) /\ Gt(basisOf[c], Zero)

---------------------------------------------------------------------------
\* The main-axis coordinate and size of child c, as the host holds them.
MainPos(c) == IF mainAxis = "ROW" THEN node[c].x ELSE node[c].y
MainSize(c) == getLayoutSize(node[c], mainAxis)

\* Whether the justify policy takes effect, by the specification.
SpecJustifyApplies ==
    SpecTotalGrow = Zero /\ Gt(SpecRemainingSpace, Zero) /\ mainMeasureMode = "EXACTLY"

\* The gap between children and the leading offset, by the table of the
\* specification.
SpecGap ==
    IF ~SpecJustifyApplies THEN Zero
    ELSE IF justify = "SPACE_BETWEEN"
         THEN (IF childCount > 1 THEN Div(SpecRemainingSpace, F(childCount - 1)) ELSE Zero)
    ELSE IF justify = "SPACE_AROUND" THEN Div(SpecRemainingSpace, F(childCount))
    ELSE Zero

SpecLeading ==
    IF ~SpecJustifyApplies THEN Zero
    ELSE IF justify = "CENTER" THEN Div(SpecRemainingSpace, F(2))
    ELSE IF justify = "END" THEN SpecRemainingSpace
    ELSE IF justify = "SPACE_AROUND" THEN Div(SpecGap, F(2))
    ELSE Zero

\* The space between the margin boxes of child c and child c + 1.
SpaceAfter(c) ==
    Sub(Sub(MainPos(c + 1), getLeadingMargin(params[c + 1], mainAxis)),
        Add(Add(MainPos(c), MainSize(c)), getTrailingMargin(params[c], mainAxis)))

\* C5: the leading offset and the gap are those of the table when totalGrow = 0,
\* remainingSpace > 0 and the main mode is EXACTLY, and 0 otherwise; then the space
\* between adjacent margin boxes is the gap for SPACE_BETWEEN and SPACE_AROUND, and
\* for END the trailing margin edge of the last child is at the available main size.
C5_Justify ==
    Done =>
        /\ leadingMainSize = SpecLeading
        /\ betweenMain = SpecGap
        /\ (SpecJustifyApplies /\ justify \in {"SPACE_BETWEEN", "SPACE_AROUND"}) =>
              \A c \in 1..(childCount - 1) : SpaceAfter(c) = SpecGap
        /\ (SpecJustifyApplies /\ justify = "END" /\ childCount > 0) =>
              Add(Add(MainPos(childCount), MainSize(childCount)),
                  getTrailingMargin(params[childCount], mainAxis)) = availableMain

\* The running cursor before child c: the leading offset, advanced by gap + final
\* main size + main-axis margin of each child before c.
RECURSIVE Cursor(_)
Cursor(c) ==
    IF c = 1 THEN leadingMainSize
    ELSE Add(Cursor(c - 1),
             Add(Add(betweenMain, MainSize(c - 1)), getMargin(params[c - 1], mainAxis)))

\* C7: each child's main-axis coordinate is the running cursor plus the child's
\* leading margin on the main axis.
C7_MainPlacement ==
    Done => \A c \in Children :
                MainPos(c) = Add(Cursor(c), getLeadingMargin(params[c], mainAxis))

---------------------------------------------------------------------------
\* The cross-axis coordinate and size of child c, as the host holds them.
CrossPos(c) == IF crossAxis = "ROW" THEN node[c].x ELSE node[c].y
CrossSize(c) == getLayoutSize(node[c], crossAxis)

\* The cross size of child c after its final layout call.
CrossAfterFinal(c) ==
    Measured(CrossOf(FinalOf(c)), CrossModeOf(FinalOf(c)),
             getLayoutSize(content[c], crossAxis))

\* C6: a STRETCH child without a cross style size gets a layout call in the cross
\* pass, both modes EXACTLY, its cross size the container's cross size minus the
\* child's cross margins and its main size the child's main size; a STRETCH child
\* with a definite cross style size gets none.
C6_Stretch ==
    Done => \A c \in Children :
        getAlign(params[c]) = "STRETCH" =>
            IF isUndefined(getStyleSize(params[c], crossAxis))
            THEN /\ Len(CallsOf(c, "stretch")) = 1
                 /\ LET k == CallsOf(c, "stretch")[1]
                    IN /\ k.widthMode = "EXACTLY"
                       /\ k.heightMode = "EXACTLY"
                       /\ CrossOf(k) = Sub(WidgetCross, getMargin(params[c], crossAxis))
                       /\ MainOf(k) = FinalMain(c)
            ELSE CallsOf(c, "stretch") = <<>>

\* The largest of t[1] .. t[n], and 0 when n = 0.
RECURSIVE MaxTo(_, _)
MaxTo(t, n) == IF n = 0 THEN Zero ELSE MAX(MaxTo(t, n - 1), t[n])

\* C8: when the cross-axis measure mode is not EXACTLY, the cross size written to
\* the container is the maximum over the children of the cross size after the final
\* layout call plus the cross-axis margins, and 0 without children.
C8_ContentCrossSize ==
    (Done /\ crossMeasureMode # "EXACTLY") =>
        WidgetCross =
            MaxTo([c \in Children |->
                      Add(CrossAfterFinal(c), getMargin(params[c], crossAxis))],
                  childCount)

\* The container's finalized cross size: the available one when the cross mode is
\* EXACTLY, the one written to the container otherwise.
ContainerCross ==
    IF crossMeasureMode = "EXACTLY" THEN availableCross ELSE WidgetCross

\* C9: the cross-axis coordinate of a CENTER or END child is (container cross size
\* - child cross size - child cross margins) / (2 if CENTER else 1) + its leading
\* cross margin, and that of a START child is its leading cross margin.
C9_CrossAlignment ==
    Done => \A c \in Children :
        LET p == params[c]
            free == Sub(Sub(ContainerCross, CrossSize(c)), getMargin(p, crossAxis))
        IN /\ getAlign(p) = "CENTER" =>
                 CrossPos(c) = Add(Div(free, F(2)), getLeadingMargin(p, crossAxis))
           /\ getAlign(p) = "END" =>
                 CrossPos(c) = Add(free, getLeadingMargin(p, crossAxis))
           /\ getAlign(p) = "START" => CrossPos(c) = getLeadingMargin(p, crossAxis)

---------------------------------------------------------------------------
\* The place of a pass in the order of the passes.
Rank(pass) == IF pass = "measure" THEN 1 ELSE IF pass = "final" THEN 2 ELSE 3

\* C10: each child gets at most one measurement call, and only when its main style
\* size is undefined and it is not given a zero basis; then exactly one final call,
\* with the main-axis mode EXACTLY; then at most one stretch call: at most two calls
\* in passes 1-2 and three in all, in that order, and no final call before the
\* basis of every child is resolved and stored.
C10_CallOrder ==
    /\ \A c \in Children :
          /\ Len(CallsOf(c, "measure")) <= 1
          /\ Len(CallsOf(c, "final")) <= 1
          /\ Len(CallsOf(c, "stretch")) <= 1
          /\ CallsOf(c, "measure") # <<>> =>
                /\ isUndefined(getStyleSize(params[c], mainAxis))
                /\ ~(Gt(getFlex(params[c]), Zero) /\ availableMain # Zero)
          /\ pc \in {"place", "cross", "done"} => Len(CallsOf(c, "final")) = 1
          /\ pc \in {"basis", "flex", "place"} => CallsOf(c, "stretch") = <<>>
    /\ \A k \in 1..Len(calls) :
          /\ calls[k].pass = "final" => MainModeOf(calls[k]) = "EXACTLY"
          /\ \A j \in 1..(k - 1) :
                \/ Rank(calls[j].pass) < Rank(calls[k].pass)
                \/ calls[j].pass = calls[k].pass /\ calls[j].child < calls[k].child
    /\ (\E k \in 1..Len(calls) : calls[k].pass = "final") => Len(basisOf) = childCount
    /\ pc = "flex" =>
          \A c \in (i + 1)..childCount : getLayoutSize(node[c], mainAxis) = basisOf[c]

\* A finished call in which one child was measured, laid out and stretched, and
\* another child was laid out once.
C10_Witness ==
    /\ Done
    /\ \E c \in Children :
          /\ CallsOf(c, "measure") # <<>>
          /\ CallsOf(c, "final") # <<>>
          /\ CallsOf(c, "stretch") # <<>>
    /\ \E c \in Children :
          /\ CallsOf(c, "measure") = <<>>
          /\ CallsOf(c, "stretch") = <<>>

====
